---- MODULE Spec2Model ----
(***************************************************************************)
(* Personal Chef shopping-list calculator (src/personal_chef_app.py).      *)
(*                                                                         *)
(* The state is the Streamlit session state (ingredient catalog, the       *)
(* selected recipe's items, person count, optional target portion) plus    *)
(* what the last script run computed with compute_rows (the aggregated     *)
(* groups, the scale, the table df and the summary).  Every action is one  *)
(* script rerun: a widget changes one input and the script recomputes.     *)
(*                                                                         *)
(* Numbers: Python floats are modelled as exact rationals <<num, den>>     *)
(* with den > 0, in lowest terms; rounding is not modelled.  <<0, 0>> is   *)
(* the outcome of a division by zero (ZeroDivisionError).  Python's None   *)
(* is the empty tuple.  The column "Preco (un. compra)" is the table's     *)
(* price column, written without its cedilla.                              *)
(*                                                                         *)
(* Three specifications bound the inputs differently: Spec edits the       *)
(* recipe, the person count and the target over a fixed catalog; SpecAgg   *)
(* edits recipes whose lines carry notes; SpecCatalog edits the catalog    *)
(* under the starter recipe.                                               *)
(***************************************************************************)
EXTENDS Integers, Sequences, FiniteSets, TLC

VARIABLES ingredients, items, people, target, agg, scale, df, summary

vars == <<ingredients, items, people, target, agg, scale, df, summary>>

-----------------------------------------------------------------------------
(* Exact rational arithmetic standing for float arithmetic *)

None == <<>>

Abs(n) == IF n < 0 THEN -n ELSE n

RECURSIVE Gcd(_, _)
Gcd(a, b) == IF b = 0 THEN a ELSE Gcd(b, a % b)

ZeroDivisionError == <<0, 0>>

Norm(n, d) ==
    LET g == Gcd(Abs(n), d) IN <<n \div g, d \div g>>

Rat(n, d) == Norm(n, d)

Zero == <<0, 1>>
One == <<1, 1>>

IsErr(x) == x = ZeroDivisionError

RAdd(x, y) ==
    IF IsErr(x) \/ IsErr(y) THEN ZeroDivisionError
    ELSE Norm(x[1] * y[2] + y[1] * x[2], x[2] * y[2])

RMul(x, y) ==
    IF IsErr(x) \/ IsErr(y) THEN ZeroDivisionError
    ELSE Norm(x[1] * y[1], x[2] * y[2])

RDiv(x, y) ==
    IF IsErr(x) \/ IsErr(y) \/ y[1] = 0 THEN ZeroDivisionError
    ELSE IF y[1] > 0 THEN Norm(x[1] * y[2], x[2] * y[1])
    ELSE Norm(-(x[1] * y[2]), x[2] * (-y[1]))

RGt0(x) == x[1] > 0

-----------------------------------------------------------------------------
(* Data models and lookups *)

Ingredient(name, unitPurchase, rl, price, kcal100, kcalUnit, density) ==
    [name |-> name, unitPurchase |-> unitPurchase, rl |-> rl, price |-> price,
     kcal_per_100g |-> kcal100, kcal_per_unit |-> kcalUnit,
     density_g_per_ml |-> density]

RecipeItem(ingredient, perPersonPL, unit, fc, note) ==
    [ingredient |-> ingredient, perPersonPL |-> perPersonPL, unit |-> unit,
     fc |-> fc, note |-> note]

\* {ing.name: ing for ing in ingredients}: the last entry of a name wins
ingredient_map(ings) ==
    [n \in {ings[i].name : i \in DOMAIN ings} |->
        LET last == CHOOSE i \in DOMAIN ings :
                        /\ ings[i].name = n
                        /\ \A j \in DOMAIN ings : ings[j].name = n => j <= i
        IN ings[last]]

\* ing_idx.get(name) is not None
Found(ing_idx, name) == name \in DOMAIN ing_idx

-----------------------------------------------------------------------------
(* Nutrition helper *)

\* a helper that takes millilitres for grams, whatever the density
kcal_for_item_no_density(ing, cooked_weight_g, unit) ==
    IF unit = "un"
    THEN IF ing.kcal_per_unit = None THEN None
         ELSE RMul(ing.kcal_per_unit, cooked_weight_g)
    ELSE IF ing.kcal_per_100g = None THEN None
    ELSE RDiv(RMul(ing.kcal_per_100g, cooked_weight_g), Rat(100, 1))

kcal_for_item(ing, cooked_weight_g, unit) ==
    IF unit = "un"
    THEN IF ing.kcal_per_unit = None THEN None
         ELSE RMul(ing.kcal_per_unit, cooked_weight_g)
    ELSE IF ing.kcal_per_100g = None THEN None
    ELSE LET dens == IF ing.density_g_per_ml # None
                     THEN ing.density_g_per_ml ELSE One
             grams == IF unit = "ml" THEN RMul(cooked_weight_g, dens)
                      ELSE cooked_weight_g
         IN RDiv(RMul(ing.kcal_per_100g, grams), Rat(100, 1))

-----------------------------------------------------------------------------
(* compute_rows, step by step *)

Key(it) == it.ingredient \o "__" \o it.unit

\* float(it.fc if it.fc else 1.0)
FcOf(it) == IF it.fc # None /\ it.fc # Zero THEN it.fc ELSE One

\* it.note or ""
NoteOf(it) == it.note

\* a group that takes an unknown ingredient as bought by the unit
NewGroupByUnit(it, ing_idx, ppl) ==
    [key |-> Key(it),
     Ingrediente |-> it.ingredient,
     UnitCompra |-> IF Found(ing_idx, it.ingredient)
                    THEN ing_idx[it.ingredient].unitPurchase ELSE "un",
     PL_pessoa |-> it.perPersonPL,
     Un |-> it.unit,
     Pessoas |-> ppl,
     RL |-> IF Found(ing_idx, it.ingredient)
            THEN ing_idx[it.ingredient].rl ELSE One,
     FC |-> FcOf(it),
     Obs |-> NoteOf(it)]

NewGroup(it, ing_idx, ppl) ==
    [key |-> Key(it),
     Ingrediente |-> it.ingredient,
     UnitCompra |-> IF Found(ing_idx, it.ingredient)
                    THEN ing_idx[it.ingredient].unitPurchase ELSE "kg",
     PL_pessoa |-> it.perPersonPL,
     Un |-> it.unit,
     Pessoas |-> ppl,
     RL |-> IF Found(ing_idx, it.ingredient)
            THEN ing_idx[it.ingredient].rl ELSE One,
     FC |-> FcOf(it),
     Obs |-> NoteOf(it)]

\* a merge that keeps the weight of the last line instead of adding it
MergeGroupLastWeight(g, it) ==
    [g EXCEPT !.PL_pessoa = it.perPersonPL, !.FC = FcOf(it)]

\* the else branch: only PL_pessoa and FC are written
MergeGroup(g, it) ==
    [g EXCEPT !.PL_pessoa = RAdd(g.PL_pessoa, it.perPersonPL),
              !.FC = FcOf(it)]

\* one iteration of "for it in recipe.items"
AggStep(a, it, ing_idx, ppl) ==
    IF \E i \in DOMAIN a : a[i].key = Key(it)
    THEN [i \in DOMAIN a |->
            IF a[i].key = Key(it) THEN MergeGroup(a[i], it) ELSE a[i]]
    ELSE Append(a, NewGroup(it, ing_idx, ppl))

RECURSIVE AggLoop(_, _, _, _, _)
AggLoop(its, n, a, ing_idx, ppl) ==
    IF n > Len(its) THEN a
    ELSE AggLoop(its, n + 1, AggStep(a, its[n], ing_idx, ppl), ing_idx, ppl)

Aggregate(its, ing_idx, ppl) == AggLoop(its, 1, <<>>, ing_idx, ppl)

\* a sum that forgets to leave the unit-counted groups out
RECURSIVE ServedLoopAllUnits(_, _)
ServedLoopAllUnits(a, n) ==
    IF n = 0 THEN Zero
    ELSE RAdd(ServedLoopAllUnits(a, n - 1), RMul(a[n].PL_pessoa, a[n].FC))

\* served_total_per_person_g: groups whose unit is not 'un'
RECURSIVE ServedLoop(_, _)
ServedLoop(a, n) ==
    IF n = 0 THEN Zero
    ELSE LET rest == ServedLoop(a, n - 1) IN
         IF a[n].Un # "un"
         THEN RAdd(rest, RMul(a[n].PL_pessoa, a[n].FC))
         ELSE rest

ServedTotalPerPerson(a) == ServedLoop(a, Len(a))

Truthy(x) == x # None /\ x # Zero

\* a scale that accepts a negative target
ScaleFactorAnySign(tgt, served) ==
    IF Truthy(tgt) /\ RGt0(served)
    THEN RDiv(tgt, served)
    ELSE One

ScaleFactor(tgt, served) ==
    IF Truthy(tgt) /\ RGt0(tgt) /\ RGt0(served)
    THEN RDiv(tgt, served)
    ELSE One

\* a yield used as it is, zero included
EffectiveYieldUnguarded(r) == r.RL

EffectiveYield(r) == IF RGt0(r.RL) THEN r.RL ELSE One

PurchaseQty(r, pb_total) ==
    IF r.UnitCompra = "kg" /\ r.Un = "g" THEN RDiv(pb_total, Rat(1000, 1))
    ELSE IF r.UnitCompra = "ml" /\ r.Un = "ml" THEN pb_total
    ELSE IF r.UnitCompra = "un" /\ r.Un = "un" THEN pb_total
    ELSE pb_total

PriceOf(ing_idx, r) ==
    IF Found(ing_idx, r.Ingrediente) THEN ing_idx[r.Ingrediente].price ELSE None

\* a cost that tests the price for truth, so that a price of 0 is no price
CostOfTruthy(purchase_qty, price) ==
    IF Truthy(price) THEN RMul(purchase_qty, price) ELSE None

CostOf(purchase_qty, price) ==
    IF price # None THEN RMul(purchase_qty, price) ELSE None

KcalThis(ing_idx, r, per_person_cooked) ==
    IF Found(ing_idx, r.Ingrediente)
    THEN IF r.Un \in {"g", "ml"}
         THEN kcal_for_item(ing_idx[r.Ingrediente], per_person_cooked, r.Un)
         ELSE IF r.Un = "un"
         THEN kcal_for_item(ing_idx[r.Ingrediente], per_person_cooked, "un")
         ELSE None
    ELSE None

\* a scaling that rescales the weighed groups only
PlPessoaScaledWeighedOnly(r, sc) ==
    IF r.Un # "un" THEN RMul(r.PL_pessoa, sc) ELSE r.PL_pessoa

PlPessoaScaled(r, sc) == RMul(r.PL_pessoa, sc)

\* a total that counts the cook as one more person
PlTotalOneMore(r, pl_pessoa_scaled) ==
    RMul(pl_pessoa_scaled, Rat(r.Pessoas + 1, 1))

PlTotal(r, pl_pessoa_scaled) == RMul(pl_pessoa_scaled, Rat(r.Pessoas, 1))

PbTotal(pl_total, rl) == RDiv(pl_total, rl)

\* the same product in both branches of "if r['Un'] in ('g', 'ml')"
PerPersonCooked(r, pl_pessoa_scaled) == RMul(pl_pessoa_scaled, r.FC)

TotalCooked(r, pl_total) == RMul(pl_total, r.FC)

\* one iteration of "for r in agg.items()": the appended row
Row(r, sc, ing_idx) ==
    LET pl_pessoa_scaled == PlPessoaScaled(r, sc)
        pl_total == PlTotal(r, pl_pessoa_scaled)
        rl == EffectiveYield(r)
        pb_total == PbTotal(pl_total, rl)
        purchase_qty == PurchaseQty(r, pb_total)
        price == PriceOf(ing_idx, r)
        cost == CostOf(purchase_qty, price)
        per_person_cooked == PerPersonCooked(r, pl_pessoa_scaled)
        total_cooked == TotalCooked(r, pl_total)
        kcal_this == KcalThis(ing_idx, r, per_person_cooked)
    IN  "Ingrediente" :> r.Ingrediente
     @@ "Un. compra" :> r.UnitCompra
     @@ "PL/pessoa" :> pl_pessoa_scaled
     @@ "Un (g/ml/un)" :> r.Un
     @@ "Pessoas" :> r.Pessoas
     @@ "PL total" :> pl_total
     @@ "RL" :> rl
     @@ "PB total" :> pb_total
     @@ "Qtd p/ compra" :> purchase_qty
     @@ "Preco (un. compra)" :> price
     @@ "Custo" :> cost
     @@ "FC" :> r.FC
     @@ "Peso final/pessoa" :> per_person_cooked
     @@ "Peso final total" :> total_cooked
     @@ "kcal/pessoa (ingrediente)" :> kcal_this
     @@ "Obs" :> r.Obs

Rows(a, sc, ing_idx) == [i \in DOMAIN a |-> Row(a[i], sc, ing_idx)]

\* kcal_person: the non-null kcal of the rows, added up
RECURSIVE KcalPerson(_, _)
KcalPerson(rows, n) ==
    IF n = 0 THEN Zero
    ELSE LET rest == KcalPerson(rows, n - 1)
             k == rows[n]["kcal/pessoa (ingrediente)"] IN
         IF k # None THEN RAdd(rest, k) ELSE rest

\* total_served_weight_per_person: rows whose unit is not 'un'
RECURSIVE TotalServed(_, _)
TotalServed(rows, n) ==
    IF n = 0 THEN Zero
    ELSE LET rest == TotalServed(rows, n - 1) IN
         IF rows[n]["Un (g/ml/un)"] # "un"
         THEN RAdd(rest, rows[n]["Peso final/pessoa"])
         ELSE rest

\* a summary that multiplies by the person count whatever the served weight
SummaryTotalAlways(rows, ppl) ==
    LET kcal == KcalPerson(rows, Len(rows))
        peso == TotalServed(rows, Len(rows))
        n == IF rows # <<>> THEN rows[1]["Pessoas"] ELSE ppl
    IN [kcal_por_pessoa |-> kcal,
        peso_servido_por_pessoa_g |-> peso,
        kcal_por_grama |-> IF RGt0(peso) THEN RDiv(kcal, peso) ELSE Zero,
        kcal_por_200g |-> IF RGt0(peso)
                          THEN RMul(RDiv(kcal, peso), Rat(200, 1)) ELSE Zero,
        kcal_totais_receita |-> RMul(kcal, Rat(n, 1))]

Summary(rows, ppl) ==
    LET kcal == KcalPerson(rows, Len(rows))
        peso == TotalServed(rows, Len(rows))
        n == IF rows # <<>> THEN rows[1]["Pessoas"] ELSE ppl
    IN IF RGt0(peso)
       THEN [kcal_por_pessoa |-> kcal,
             peso_servido_por_pessoa_g |-> peso,
             kcal_por_grama |-> RDiv(kcal, peso),
             kcal_por_200g |-> RMul(RDiv(kcal, peso), Rat(200, 1)),
             kcal_totais_receita |-> RMul(kcal, Rat(n, 1))]
       ELSE [kcal_por_pessoa |-> kcal,
             peso_servido_por_pessoa_g |-> peso,
             kcal_por_grama |-> Zero,
             kcal_por_200g |-> Zero,
             kcal_totais_receita |-> Zero]

\* compute_rows(recipe, people, target) over the catalog ings
compute_rows(ings, its, ppl, tgt) ==
    LET ing_idx == ingredient_map(ings)
        a == Aggregate(its, ing_idx, ppl)
        sc == ScaleFactor(tgt, ServedTotalPerPerson(a))
        rows == Rows(a, sc, ing_idx)
    IN [agg |-> a, scale |-> sc, df |-> rows, summary |-> Summary(rows, ppl)]

-----------------------------------------------------------------------------------------------------------------------------------------------------
(* Bounded inputs *)

MaxItems == 2

\* the starter catalog, after SAMPLE_INGREDIENTS: one ingredient bought by
\* the unit and one bought by the kilogram
SampleIngredients ==
    <<Ingredient("Ovo", "un", Rat(1, 2), Rat(3, 1), Rat(50, 1), Rat(68, 1), None),
      Ingredient("Sal", "kg", Rat(1, 2), Rat(3, 1), Rat(50, 1), None, None)>>

\* the starter recipe, after SAMPLE_RECIPES[0]: one line per ingredient and unit
SampleItems ==
    <<RecipeItem("Ovo", One, "un", One, ""),
      RecipeItem("Ovo", Rat(2, 1), "g", Rat(1, 2), ""),
      RecipeItem("Ovo", One, "ml", One, ""),
      RecipeItem("Sal", One, "g", One, ""),
      RecipeItem("Sal", One, "ml", Rat(1, 2), ""),
      RecipeItem("Sal", Rat(2, 1), "un", One, "")>>

PeopleChoices == {1, 4}
Targets == {None, Zero, Rat(-1, 1), Rat(2, 1)}
PLs == {One, Rat(2, 1)}
Units == {"g", "ml", "un"}
FCs == {Rat(1, 2), Zero}
Notes == {"", "x"}

\* the cells of the ingredient table and the values they take, typed into
\* the editor or read from an imported document
UnitPurchases == {"kg", "ml", "un"}
RLs == {Rat(-1, 2), Zero, Rat(1, 2)}
Prices == {None, Zero, Rat(3, 1)}
Kcal100s == {None, Rat(50, 1)}
KcalUnits == {None, Rat(68, 1)}
Densities == {None, Rat(1, 2)}

Cells ==
    {<<"unitPurchase", v>> : v \in UnitPurchases}
    \cup {<<"rl", v>> : v \in RLs}
    \cup {<<"price", v>> : v \in Prices}
    \cup {<<"kcal_per_100g", v>> : v \in Kcal100s}
    \cup {<<"kcal_per_unit", v>> : v \in KcalUnits}
    \cup {<<"density_g_per_ml", v>> : v \in Densities}

-----------------------------------------------------------------------------
(* The script: every rerun ends by recomputing the table and the summary *)

Recompute(ings, its, ppl, tgt) ==
    /\ agg' = Aggregate(its, ingredient_map(ings), ppl)
    /\ scale' = ScaleFactor(tgt, ServedTotalPerPerson(agg'))
    /\ df' = Rows(agg', scale', ingredient_map(ings))
    /\ summary' = Summary(df', ppl)

Init ==
    /\ ingredients = SampleIngredients
    /\ items = SampleItems
    /\ people = 4
    /\ target = None
    /\ agg = Aggregate(items, ingredient_map(ingredients), people)
    /\ scale = ScaleFactor(target, ServedTotalPerPerson(agg))
    /\ df = Rows(agg, scale, ingredient_map(ingredients))
    /\ summary = Summary(df, people)

\* st.number_input("Numero de pessoas", min_value=1)
SetPeople(n) ==
    /\ n # people
    /\ people' = n
    /\ UNCHANGED <<ingredients, items, target>>
    /\ Recompute(ingredients, items, n, target)

\* st.text_input for the target: empty text is None, a number is itself
SetTarget(t) ==
    /\ t # target
    /\ target' = t
    /\ UNCHANGED <<ingredients, items, people>>
    /\ Recompute(ingredients, items, people, t)

\* the recipe editor: a row is appended
AddItem(it) ==
    /\ Len(items) < MaxItems
    /\ items' = Append(items, it)
    /\ UNCHANGED <<ingredients, people, target>>
    /\ Recompute(ingredients, items', people, target)

\* the recipe editor: the last row is deleted
RemoveItem ==
    /\ items # <<>>
    /\ items' = SubSeq(items, 1, Len(items) - 1)
    /\ UNCHANGED <<ingredients, people, target>>
    /\ Recompute(ingredients, items', people, target)

\* the ingredient editor: one cell of one row is changed
EditCell(i, field, v) ==
    /\ i \in DOMAIN ingredients
    /\ ingredients[i][field] # v
    /\ ingredients' = [ingredients EXCEPT ![i][field] = v]
    /\ UNCHANGED <<items, people, target>>
    /\ Recompute(ingredients', items, people, target)

\* the ingredient editor: the last row is deleted
DeleteIngredient ==
    /\ ingredients # <<>>
    /\ ingredients' = SubSeq(ingredients, 1, Len(ingredients) - 1)
    /\ UNCHANGED <<items, people, target>>
    /\ Recompute(ingredients', items, people, target)

\* Recipe editing with a fixed catalog: lines without notes, any person
\* count and target
Next ==
    \/ \E n \in PeopleChoices : SetPeople(n)
    \/ \E t \in Targets : SetTarget(t)
    \/ \E pl \in PLs, u \in Units, f \in FCs :
            AddItem(RecipeItem("Ovo", pl, u, f, ""))
    \/ RemoveItem

Spec == Init /\ [][Next]_vars

\* Recipe editing with a fixed catalog and person count: lines with notes,
\* with or without a target
NextAgg ==
    \/ \E t \in {None, Rat(2, 1)} : SetTarget(t)
    \/ \E pl \in PLs, u \in {"g", "un"}, f \in FCs, o \in Notes :
            AddItem(RecipeItem("Ovo", pl, u, f, o))
    \/ RemoveItem

SpecAgg == Init /\ [][NextAgg]_vars

\* Catalog editing under the starter recipe: the cells of the first
\* ingredient vary and rows are deleted, which leaves recipe lines naming an
\* ingredient that is no longer in the catalog
NextCatalog ==
    \/ \E c \in Cells : EditCell(1, c[1], c[2])
    \/ DeleteIngredient
    \/ \E n \in PeopleChoices : SetPeople(n)
    \/ \E t \in {None, Rat(2, 1)} : SetTarget(t)

SpecCatalog == Init /\ [][NextCatalog]_vars

-----------------------------------------------------------------------------
(* Properties of the aggregation (lines 128-145) *)

\* the recipe lines that row j of the table aggregates
LinesOf(j) ==
    {i \in DOMAIN items :
        /\ items[i].ingredient = df[j]["Ingrediente"]
        /\ items[i].unit = df[j]["Un (g/ml/un)"]}

LastOf(S) == CHOOSE i \in S : \A k \in S : k <= i

RECURSIVE SumPL(_)
SumPL(S) ==
    IF S = {} THEN Zero
    ELSE LET i == CHOOSE k \in S : TRUE
         IN RAdd(items[i].perPersonPL, SumPL(S \ {i}))

\* C1: a row that aggregates several lines of one (ingredient, unit) key has
\* the sum of their perPersonPL as its net weight per person, and the cooking
\* factor (a positive one, as the data model requires) and the note of the
\* last of these lines.  Stated where no target rescales the rows.
C1_LastLineWins ==
    \A j \in DOMAIN df :
        (target = None /\ Cardinality(LinesOf(j)) >= 2) =>
            LET last == items[LastOf(LinesOf(j))] IN
            /\ df[j]["PL/pessoa"] = SumPL(LinesOf(j))
            /\ RGt0(last.fc) => df[j]["FC"] = last.fc
            /\ df[j]["Obs"] = last.note

\* line i replaced by two adjacent lines weighing a and b, all else equal
SplitAt(its, i, a, b) ==
    SubSeq(its, 1, i - 1)
    \o <<[its[i] EXCEPT !.perPersonPL = a], [its[i] EXCEPT !.perPersonPL = b]>>
    \o SubSeq(its, i + 1, Len(its))

\* two ways of cutting a weight in two parts that add up to it
Parts(x) ==
    {<<RMul(x, Rat(1, 2)), RMul(x, Rat(1, 2))>>,
     <<RMul(x, Rat(1, 4)), RMul(x, Rat(3, 4))>>}

-----------------------------------------------------------------------------
(* Properties of the scale and of the person count (lines 147-222) *)

RECURSIVE SumFn(_, _)
SumFn(f, S) ==
    IF S = {} THEN Zero
    ELSE LET j == CHOOSE k \in S : TRUE
         IN RAdd(f[j], SumFn(f, S \ {j}))

\* the current served weight per person: PL x FC over the g and ml groups
CurrentServed ==
    SumFn([j \in DOMAIN agg |-> RMul(agg[j].PL_pessoa, agg[j].FC)],
          {j \in DOMAIN agg : agg[j].Un \in {"g", "ml"}})

TargetGiven == target # None /\ RGt0(target)

TotalFields == {"PL total", "PB total", "Peso final total"}

PerPersonFields ==
    {"PL/pessoa", "Peso final/pessoa", "kcal/pessoa (ingrediente)"}

WeightFields ==
    {"PL/pessoa", "PL total", "PB total", "Peso final/pessoa",
     "Peso final total"}

\* C3: with twice the person count every total of every row doubles, and
\* every per-person field and the order of the rows stay as they are.
C3_DoublePeople ==
    \A twice \in {compute_rows(ingredients, items, 2 * people, target).df} :
        /\ Len(twice) = Len(df)
        /\ \A j \in DOMAIN df :
            /\ twice[j]["Ingrediente"] = df[j]["Ingrediente"]
            /\ twice[j]["Un (g/ml/un)"] = df[j]["Un (g/ml/un)"]
            /\ \A f \in TotalFields : twice[j][f] = RMul(Rat(2, 1), df[j][f])
            /\ \A f \in PerPersonFields : twice[j][f] = df[j][f]

\* a rescaled recipe of several groups, for one person
C3_Witness ==
    /\ people = 1
    /\ Len(df) >= 2
    /\ scale # One
    /\ \A j \in DOMAIN df : df[j]["PL total"] # Zero

\* C4: under a positive target T and a positive current served weight C,
\* the weights of every row, unit-counted rows included, and the total kcal
\* per person are T/C times what they are with no target, and the served
\* weight per person is T.
C4_TargetRescalesAll ==
    (TargetGiven /\ RGt0(CurrentServed)) =>
        \A base \in {compute_rows(ingredients, items, people, None)} :
            LET k == RDiv(target, CurrentServed) IN
            /\ Len(df) = Len(base.df)
            /\ \A j \in DOMAIN df : \A f \in WeightFields :
                    df[j][f] = RMul(k, base.df[j][f])
            /\ summary.kcal_por_pessoa = RMul(k, base.summary.kcal_por_pessoa)
            /\ summary.peso_servido_por_pessoa_g = target

\* a target that rescales a recipe with a weighed and a unit-counted group
C4_Witness ==
    /\ TargetGiven
    /\ RGt0(CurrentServed)
    /\ target # CurrentServed
    /\ \E j \in DOMAIN df :
            df[j]["Un (g/ml/un)"] = "un" /\ RGt0(df[j]["PL/pessoa"])
    /\ RGt0(summary.kcal_por_pessoa)

\* C5: a target equal to the positive current served weight gives scale 1
\* and the rows and summary of the computation with no target.
C5_TargetEqualsCurrent ==
    (target # None /\ target = CurrentServed /\ RGt0(CurrentServed)) =>
        /\ scale = One
        /\ \A base \in {compute_rows(ingredients, items, people, None)} :
                df = base.df /\ summary = base.summary

\* the target is the current served weight of a recipe that also has a
\* unit-counted group
C5_Witness ==
    /\ target # None
    /\ target = CurrentServed
    /\ RGt0(CurrentServed)
    /\ \E j \in DOMAIN agg : agg[j].Un = "un"

\* C8: the scale is target / C when the target is given and positive and
\* C > 0, C being PL x FC summed over the g and ml groups only; otherwise
\* it is 1, and no division by zero happens.
C8_ScaleFactor ==
    /\ scale # ZeroDivisionError
    /\ IF TargetGiven /\ RGt0(CurrentServed)
       THEN scale = RDiv(target, CurrentServed)
       ELSE scale = One

\* a positive target over a recipe with weighed and unit-counted groups
C8_Witness ==
    /\ TargetGiven
    /\ RGt0(CurrentServed)
    /\ scale # One
    /\ \E j \in DOMAIN agg : agg[j].Un = "un"
    /\ \E j \in DOMAIN agg : agg[j].Un = "ml"

-----------------------------------------------------------------------------
(* Properties of each row against the catalog (lines 161-222) *)

InCatalog(name) == \E i \in DOMAIN ingredients : ingredients[i].name = name

\* the catalog entry of a name (the last one, should a name repeat)
CatalogOf(name) ==
    ingredients[CHOOSE i \in DOMAIN ingredients :
        /\ ingredients[i].name = name
        /\ \A k \in DOMAIN ingredients : ingredients[k].name = name => k <= i]

PriceInCatalog(name) ==
    IF InCatalog(name) THEN CatalogOf(name).price ELSE None

\* C6: a row's cost is null if and only if its price is null (no price, or
\* an ingredient that is not in the catalog); a price of 0 gives cost 0; a
\* cost that is not null is the purchase quantity times the price.
C6_CostNullIffPriceNull ==
    \A j \in DOMAIN df :
        LET p == PriceInCatalog(df[j]["Ingrediente"]) IN
        /\ df[j]["Preco (un. compra)"] = p
        /\ (df[j]["Custo"] = None) <=> (p = None)
        /\ p = Zero => df[j]["Custo"] = Zero
        /\ df[j]["Custo"] # None =>
                df[j]["Custo"] = RMul(df[j]["Qtd p/ compra"], p)

\* a free ingredient in use next to a line whose ingredient is gone
C6_Witness ==
    /\ \E j \in DOMAIN df :
            /\ PriceInCatalog(df[j]["Ingrediente"]) = Zero
            /\ RGt0(df[j]["Qtd p/ compra"])
            /\ df[j]["Custo"] = Zero
    /\ \E j \in DOMAIN df :
            ~InCatalog(df[j]["Ingrediente"]) /\ df[j]["Custo"] = None

Dangling == {j \in DOMAIN df : ~InCatalog(df[j]["Ingrediente"])}

\* C7: a line whose ingredient is not in the catalog raises nothing; its
\* group is a row computed with yield 1.0 and purchase unit 'kg', with null
\* price, cost and kcal; it adds nothing to the total kcal per person and
\* adds its served weight when its unit is g or ml.
C7_UnknownIngredient ==
    /\ \A i \in DOMAIN items : \E j \in DOMAIN df :
            /\ df[j]["Ingrediente"] = items[i].ingredient
            /\ df[j]["Un (g/ml/un)"] = items[i].unit
    /\ \A j \in Dangling :
            /\ df[j]["RL"] = One
            /\ df[j]["Un. compra"] = "kg"
            /\ df[j]["PB total"] = df[j]["PL total"]
            /\ df[j]["Qtd p/ compra"] =
                    IF df[j]["Un (g/ml/un)"] = "g"
                    THEN RDiv(df[j]["PL total"], Rat(1000, 1))
                    ELSE df[j]["PL total"]
            /\ df[j]["Preco (un. compra)"] = None
            /\ df[j]["Custo"] = None
            /\ df[j]["kcal/pessoa (ingrediente)"] = None
            /\ \A f \in WeightFields : ~IsErr(df[j][f])
    /\ summary.kcal_por_pessoa =
            SumFn([j \in DOMAIN df |-> df[j]["kcal/pessoa (ingrediente)"]],
                  {j \in DOMAIN df \ Dangling :
                        df[j]["kcal/pessoa (ingrediente)"] # None})
    /\ summary.peso_servido_por_pessoa_g =
            SumFn([j \in DOMAIN df |-> df[j]["Peso final/pessoa"]],
                  {j \in DOMAIN df : df[j]["Un (g/ml/un)"] \in {"g", "ml"}})

\* lines of a deleted ingredient, by weight and by count, next to lines
\* that bring calories
C7_Witness ==
    /\ \E j \in Dangling :
            df[j]["Un (g/ml/un)"] = "g" /\ RGt0(df[j]["Peso final/pessoa"])
    /\ \E j \in Dangling : df[j]["Un (g/ml/un)"] = "un"
    /\ DOMAIN df # Dangling
    /\ RGt0(summary.kcal_por_pessoa)

YieldInCatalog(name) ==
    IF InCatalog(name) /\ RGt0(CatalogOf(name).rl)
    THEN CatalogOf(name).rl ELSE One

UnitInCatalog(name) ==
    IF InCatalog(name) THEN CatalogOf(name).unitPurchase ELSE "kg"

\* C9: PB total is PL total over the effective yield (the ingredient's
\* yield if positive, else 1.0, so nothing divides by zero); the purchase
\* quantity is PB total / 1000 for purchase unit 'kg' with unit 'g' and PB
\* total itself for every other pair of units.
C9_GrossAndPurchase ==
    \A j \in DOMAIN df :
        LET yld == YieldInCatalog(df[j]["Ingrediente"])
            pu == UnitInCatalog(df[j]["Ingrediente"]) IN
        /\ df[j]["RL"] = yld
        /\ df[j]["Un. compra"] = pu
        /\ ~IsErr(df[j]["PB total"])
        /\ df[j]["PB total"] = RDiv(df[j]["PL total"], yld)
        /\ df[j]["Qtd p/ compra"] =
                IF pu = "kg" /\ df[j]["Un (g/ml/un)"] = "g"
                THEN RDiv(df[j]["PB total"], Rat(1000, 1))
                ELSE df[j]["PB total"]

\* a yield of zero or less in the catalog, a kg/g row and a row bought in
\* ml and used by weight
C9_Witness ==
    /\ \E j \in DOMAIN df :
            /\ InCatalog(df[j]["Ingrediente"])
            /\ ~RGt0(CatalogOf(df[j]["Ingrediente"]).rl)
            /\ RGt0(df[j]["PB total"])
    /\ \E j \in DOMAIN df :
            /\ df[j]["Un. compra"] = "kg" /\ df[j]["Un (g/ml/un)"] = "g"
            /\ InCatalog(df[j]["Ingrediente"])
            /\ RGt0(df[j]["Qtd p/ compra"])
    /\ \E j \in DOMAIN df :
            df[j]["Un. compra"] = "ml" /\ df[j]["Un (g/ml/un)"] = "g"

\* the served quantity per person of group j: scaled PL/pessoa x FC
Served(j) == RMul(RMul(agg[j].PL_pessoa, scale), agg[j].FC)

\* C10: a row's kcal per person is kcal_per_unit x served count for unit
\* 'un', kcal_per_100g x served grams / 100 for 'g', and kcal_per_100g x
\* (served ml x density, 1.0 when absent) / 100 for 'ml'; it is null
\* exactly when the calorie field of the line's unit is absent or the
\* ingredient is not in the catalog.
C10_KcalPerRow ==
    \A j \in DOMAIN df :
        LET name == df[j]["Ingrediente"]
            un == df[j]["Un (g/ml/un)"]
            kcal == df[j]["kcal/pessoa (ingrediente)"] IN
        IF ~InCatalog(name) THEN kcal = None
        ELSE LET ing == CatalogOf(name)
                 dens == IF ing.density_g_per_ml = None THEN One
                         ELSE ing.density_g_per_ml IN
             /\ un = "un" =>
                    IF ing.kcal_per_unit = None THEN kcal = None
                    ELSE kcal = RMul(ing.kcal_per_unit, Served(j))
             /\ un = "g" =>
                    IF ing.kcal_per_100g = None THEN kcal = None
                    ELSE kcal = RDiv(RMul(ing.kcal_per_100g, Served(j)),
                                     Rat(100, 1))
             /\ un = "ml" =>
                    IF ing.kcal_per_100g = None THEN kcal = None
                    ELSE kcal = RDiv(RMul(ing.kcal_per_100g,
                                          RMul(Served(j), dens)),
                                     Rat(100, 1))
             /\ un \in {"un", "g", "ml"}

\* one egg of 68 kcal for one person, a volume with a density, and a
\* unit-counted line of an ingredient that only has kcal per 100 g
C10_Witness ==
    /\ people = 1
    /\ \E j \in DOMAIN df :
            /\ df[j]["Un (g/ml/un)"] = "un"
            /\ Served(j) = One
            /\ df[j]["kcal/pessoa (ingrediente)"] = Rat(68, 1)
    /\ \E j \in DOMAIN df :
            /\ df[j]["Un (g/ml/un)"] = "ml"
            /\ InCatalog(df[j]["Ingrediente"])
            /\ CatalogOf(df[j]["Ingrediente"]).density_g_per_ml # None
            /\ df[j]["kcal/pessoa (ingrediente)"] # None
    /\ \E j \in DOMAIN df :
            /\ df[j]["Un (g/ml/un)"] = "un"
            /\ InCatalog(df[j]["Ingrediente"])
            /\ CatalogOf(df[j]["Ingrediente"]).kcal_per_100g # None
            /\ df[j]["kcal/pessoa (ingrediente)"] = None

-----------------------------------------------------------------------------
(* Properties of the summary (lines 200-203 and 233-244) *)

\* the rows that have a kcal value
WithKcal == {j \in DOMAIN df : df[j]["kcal/pessoa (ingrediente)"] # None}

\* the rows measured by weight or volume
Weighed == {j \in DOMAIN df : df[j]["Un (g/ml/un)"] \in {"g", "ml"}}

\* C11: the total kcal per person is the sum of the rows' kcal that are
\* not null; the served weight per person is the sum of Peso final/pessoa
\* over the g and ml rows; with a positive served weight, kcal per gram is
\* their quotient, kcal per 200 g is 200 times that and the recipe's kcal
\* is the total per person times the person count; otherwise these three
\* are zero, even when unit-counted lines bring calories.
C11_Summary ==
    \A kcal \in {SumFn([j \in DOMAIN df |->
                            df[j]["kcal/pessoa (ingrediente)"]], WithKcal)} :
    \A peso \in {SumFn([j \in DOMAIN df |->
                            df[j]["Peso final/pessoa"]], Weighed)} :
        /\ summary.kcal_por_pessoa = kcal
        /\ summary.peso_servido_por_pessoa_g = peso
        /\ IF RGt0(peso)
           THEN /\ summary.kcal_por_grama = RDiv(kcal, peso)
                /\ summary.kcal_por_200g =
                        RMul(summary.kcal_por_grama, Rat(200, 1))
                /\ summary.kcal_totais_receita = RMul(kcal, Rat(people, 1))
           ELSE /\ summary.kcal_por_grama = Zero
                /\ summary.kcal_por_200g = Zero
                /\ summary.kcal_totais_receita = Zero

\* a recipe of unit-counted lines only, which bring calories for several
\* people
C11_Witness ==
    /\ df # <<>>
    /\ Weighed = {}
    /\ people > 1
    /\ RGt0(summary.kcal_por_pessoa)
    /\ summary.kcal_totais_receita = Zero

====
